---- MODULE Spec2Model ----
(***************************************************************************)
(* A model of the token codec of tokenizer/tokenizer.py: class Encoding    *)
(* (encode_ordinary, encode, decode, decode_with_offsets, the four batch   *)
(* operations run on a ThreadPoolExecutor) and the module functions        *)
(* split_text_into_chunks and save_chunks_to_files.                        *)
(*                                                                         *)
(* A str is a sequence of code points (integers), a bytes object a         *)
(* sequence of integers in 0..255, a token an integer id.                  *)
(***************************************************************************)
EXTENDS Integers, Sequences, FiniteSets, TLC

VARIABLES hist,      \* codec session: the calls made so far, each [op, inp, ret]
          bpc,       \* batch call: position of the calling thread
          bop,       \* batch call: which batch operation, with its arguments
          batch,     \* batch call: the input list
          status,    \* batch call: per item "pending" | "running" | "done" | "cancelled"
          outcome,   \* batch call: per item, the outcome of the single-item operation
          completed, \* batch call: item indices in the order the workers completed them
          nxt,       \* batch call: index of the future the result iterator waits on
          results,   \* batch call: the list built by list(executor.map(...))
          err,       \* batch call: the exception travelling up to the caller, or None
          bret,      \* batch call: what the caller receives
          wasrunning,\* batch call: the items a worker was running when an error surfaced
          chunks,    \* save_chunks_to_files: the chunks argument
          idx,       \* save_chunks_to_files: loop index
          files,     \* the file system: file name (prefix, index) -> content
          log,       \* the logger's records of save_chunks_to_files
          attempts,  \* save_chunks_to_files: indices whose write was attempted, in order
          spc        \* save_chunks_to_files: "loop" | "returned" | "raised"

codecVars == <<hist>>
batchVars == <<bpc, bop, batch, status, outcome, completed, nxt, results, err, bret,
               wasrunning>>
saveVars  == <<chunks, idx, files, log, attempts, spc>>
vars      == <<hist, bpc, bop, batch, status, outcome, completed, nxt, results, err, bret,
               wasrunning, chunks, idx, files, log, attempts, spc>>

(***************************************************************************)
(* Bounds of the model.                                                    *)
(***************************************************************************)
MaxTextLen == 4
MaxTokLen == 4
MaxK == 3
MaxBatch == 3
MaxThreads == 2
MaxChunks == 3

None == [status |-> "none"]

SeqsUpTo(S, n) == UNION {[1..m -> S] : m \in 0..n}

RECURSIVE Flatten(_)
Flatten(ss) == IF ss = <<>> THEN <<>> ELSE Head(ss) \o Flatten(Tail(ss))

Max0(a, b) == IF a >= b THEN a ELSE b

(***************************************************************************)
(* Python str <-> bytes conversions.                                       *)
(***************************************************************************)
IsSurrogate(cp) == 55296 <= cp /\ cp <= 57343
IsHighSurrogate(cp) == 55296 <= cp /\ cp <= 56319
IsLowSurrogate(cp) == 56320 <= cp /\ cp <= 57343
HasSurrogate(text) == \E i \in 1..Len(text) : IsSurrogate(text[i])

\* str.encode("utf-8") of one code point that is not a surrogate
Utf8OfCodePoint(cp) ==
    IF cp < 128 THEN <<cp>>
    ELSE IF cp < 2048 THEN <<192 + (cp \div 64), 128 + (cp % 64)>>
    ELSE IF cp < 65536
         THEN <<224 + (cp \div 4096), 128 + ((cp \div 64) % 64), 128 + (cp % 64)>>
    ELSE <<240 + (cp \div 262144), 128 + ((cp \div 4096) % 64),
           128 + ((cp \div 64) % 64), 128 + (cp % 64)>>

RECURSIVE Utf8Encode(_)
Utf8Encode(text) ==
    IF text = <<>> THEN <<>> ELSE Utf8OfCodePoint(Head(text)) \o Utf8Encode(Tail(text))

IsContinuation(b) == 128 <= b /\ b < 192

\* number of continuation bytes a lead byte announces; -1 for an invalid lead byte
Utf8Need(b) ==
    IF b < 128 THEN 0
    ELSE IF 194 <= b /\ b <= 223 THEN 1
    ELSE IF 224 <= b /\ b <= 239 THEN 2
    ELSE IF 240 <= b /\ b <= 244 THEN 3
    ELSE -1

\* is c a legal j-th byte (j = 1: the byte after the lead) after lead byte b
Utf8TrailOk(b, j, c) ==
    IF j > 1 THEN IsContinuation(c)
    ELSE IF b = 224 THEN 160 <= c /\ c <= 191
    ELSE IF b = 237 THEN 128 <= c /\ c <= 159
    ELSE IF b = 240 THEN 144 <= c /\ c <= 191
    ELSE IF b = 244 THEN 128 <= c /\ c <= 143
    ELSE IsContinuation(c)

\* length of the longest legal prefix of the sequence starting at bs[1] (at least 1)
Utf8Good(bs) ==
    LET b == bs[1]
        need == Utf8Need(b)
        ok(j) == j + 1 <= Len(bs) /\ Utf8TrailOk(b, j, bs[j + 1])
        good == {j \in 0..Max0(need, 0) : \A i \in 1..j : ok(i)}
    IN  1 + (CHOOSE j \in good : \A i \in good : i <= j)

Utf8Value(bs, n) ==
    IF n = 1 THEN bs[1]
    ELSE IF n = 2 THEN (bs[1] - 192) * 64 + (bs[2] - 128)
    ELSE IF n = 3 THEN (bs[1] - 224) * 4096 + (bs[2] - 128) * 64 + (bs[3] - 128)
    ELSE (bs[1] - 240) * 262144 + (bs[2] - 128) * 4096 + (bs[3] - 128) * 64 + (bs[4] - 128)

\* bytes.decode("utf-8", errors): [status |-> "ok", value |-> str], or a raise
\* under errors = "strict"; "replace" puts U+FFFD for each maximal ill-formed part
RECURSIVE Utf8Decode(_, _)
Utf8Decode(bs, errors) ==
    IF bs = <<>> THEN [status |-> "ok", value |-> <<>>]
    ELSE LET need == Utf8Need(bs[1])
             good == Utf8Good(bs)
             whole == need >= 0 /\ good = need + 1
             rest == Utf8Decode(SubSeq(bs, good + 1, Len(bs)), errors)
         IN  IF ~whole /\ errors = "strict"
             THEN [status |-> "raise", error |-> <<"UnicodeDecodeError">>]
             ELSE IF rest.status # "ok" THEN rest
             ELSE [status |-> "ok",
                   value |-> <<IF whole THEN Utf8Value(bs, good) ELSE 65533>> \o rest.value]

\* str.encode("utf-16", "surrogatepass") without the byte-order mark, as code units
RECURSIVE Utf16Units(_)
Utf16Units(text) ==
    IF text = <<>> THEN <<>>
    ELSE LET cp == Head(text)
         IN  (IF cp < 65536 THEN <<cp>>
              ELSE <<55296 + ((cp - 65536) \div 1024), 56320 + ((cp - 65536) % 1024)>>)
             \o Utf16Units(Tail(text))

\* bytes.decode("utf-16", "replace") of code units
RECURSIVE Utf16DecodeReplace(_)
Utf16DecodeReplace(u) ==
    IF u = <<>> THEN <<>>
    ELSE IF IsHighSurrogate(u[1]) /\ Len(u) >= 2 /\ IsLowSurrogate(u[2])
         THEN <<65536 + (u[1] - 55296) * 1024 + (u[2] - 56320)>>
              \o Utf16DecodeReplace(SubSeq(u, 3, Len(u)))
    ELSE IF IsSurrogate(u[1]) THEN <<65533>> \o Utf16DecodeReplace(Tail(u))
    ELSE <<u[1]>> \o Utf16DecodeReplace(Tail(u))

\* text.encode("utf-16", "surrogatepass").decode("utf-16", "replace")
SurrogateFallbackIdentity(text) == text
SurrogateFallback(text) == Utf16DecodeReplace(Utf16Units(text))

(***************************************************************************)
(* The vocabulary handed to Encoding.__init__.                             *)
(* Code points: 60 '<', 97 'a', 98 'b', 233 e-acute, 55357 / 56832 a high  *)
(* and a low surrogate.                                                    *)
(***************************************************************************)
\* mergeable_ranks: the byte sequence of rank r is MergeableRanks[r + 1]
MergeableRanks ==
    << <<60>>, <<97>>, <<98>>, <<128>>, <<152>>, <<159>>, <<169>>, <<189>>, <<191>>,
       <<195>>, <<239>>, <<240>>,
       <<97, 98>>, <<195, 169>>, <<97, 98, 97>> >>

HasRank(bs) == \E r \in 1..Len(MergeableRanks) : MergeableRanks[r] = bs
Rank(bs) == (CHOOSE r \in 1..Len(MergeableRanks) : MergeableRanks[r] = bs) - 1

\* special_tokens: literal -> id
SpecialLiterals == {<<60, 97>>, <<60, 98>>}
SpecialId(lit) == IF lit = <<60, 97>> THEN 15 ELSE 16

special_tokens_set == SpecialLiterals

max_token_value ==
    LET ids == {r - 1 : r \in 1..Len(MergeableRanks)} \cup {SpecialId(l) : l \in SpecialLiterals}
    IN  CHOOSE m \in ids : \A i \in ids : i <= m

\* pat_str: a run of letters is one piece, any other code point a piece of its own
IsLetter(cp) == (97 <= cp /\ cp <= 122) \/ cp = 233

RECURSIVE PatPieces(_)
PatPieces(text) ==
    IF text = <<>> THEN <<>>
    ELSE IF ~IsLetter(text[1]) THEN <<SubSeq(text, 1, 1)>> \o PatPieces(Tail(text))
    ELSE LET run == {n \in 1..Len(text) : \A i \in 1..n : IsLetter(text[i])}
             n == CHOOSE m \in run : \A i \in run : i <= m
         IN  <<SubSeq(text, 1, n)>> \o PatPieces(SubSeq(text, n + 1, Len(text)))

(***************************************************************************)
(* The byte-pair merge engine (tiktoken's CoreBPE), by its contract.       *)
(***************************************************************************)
\* merge the adjacent pair of lowest rank (the leftmost one) until none is in the table
RECURSIVE byte_pair_merge(_)
byte_pair_merge(parts) ==
    LET pair(i) == parts[i] \o parts[i + 1]
        cand == {i \in 1..(Len(parts) - 1) : HasRank(pair(i))}
    IN  IF cand = {} THEN parts
        ELSE LET best == CHOOSE i \in cand : \A j \in cand :
                            Rank(pair(i)) < Rank(pair(j))
                            \/ (Rank(pair(i)) = Rank(pair(j)) /\ i <= j)
             IN  byte_pair_merge(SubSeq(parts, 1, best - 1) \o <<pair(best)>>
                                 \o SubSeq(parts, best + 2, Len(parts)))

\* the ordinary tokens of one piece
encode_single_piece(bs) ==
    IF HasRank(bs) THEN <<Rank(bs)>>
    ELSE LET groups == byte_pair_merge([i \in 1..Len(bs) |-> <<bs[i]>>])
         IN  [i \in 1..Len(groups) |-> Rank(groups[i])]

\* the ordinary tokens of a str without surrogates
OrdinaryTokens(text) ==
    LET pieces == PatPieces(text)
    IN  Flatten([i \in 1..Len(pieces) |-> encode_single_piece(Utf8Encode(pieces[i]))])

OccursAt(lit, text, p) ==
    p + Len(lit) - 1 <= Len(text) /\ SubSeq(text, p, p + Len(lit) - 1) = lit

\* CoreBPE.encode_ordinary: a str with a surrogate cannot be passed as UTF-8
CoreBPE_encode_ordinary(text) ==
    IF HasSurrogate(text) THEN [status |-> "raise", error |-> <<"UnicodeEncodeError">>]
    ELSE [status |-> "ok", value |-> OrdinaryTokens(text)]

\* the tokens of text[start..]: ordinary text up to the next allowed special
\* literal, that literal's id, and so on
RECURSIVE SpecialTokens(_, _, _)
SpecialTokens(text, start, allowed) ==
    LET at == {p \in start..Len(text) : \E l \in allowed : OccursAt(l, text, p)}
    IN  IF at = {} THEN OrdinaryTokens(SubSeq(text, start, Len(text)))
        ELSE LET p == CHOOSE q \in at : \A r \in at : q <= r
                 lit == CHOOSE l \in allowed : OccursAt(l, text, p)
             IN  OrdinaryTokens(SubSeq(text, start, p - 1)) \o <<SpecialId(lit)>>
                 \o SpecialTokens(text, p + Len(lit), allowed)

\* CoreBPE.encode(text, allowed_special)
CoreBPE_encode(text, allowed) ==
    IF HasSurrogate(text) THEN [status |-> "raise", error |-> <<"UnicodeEncodeError">>]
    ELSE [status |-> "ok", value |-> SpecialTokens(text, 1, allowed)]

IsKnownToken(t) ==
    (0 <= t /\ t < Len(MergeableRanks)) \/ (\E l \in SpecialLiterals : SpecialId(l) = t)

\* CoreBPE.decode_single_token_bytes of a known token
TokenBytes(t) ==
    IF t < Len(MergeableRanks) THEN MergeableRanks[t + 1]
    ELSE Utf8Encode(CHOOSE l \in SpecialLiterals : SpecialId(l) = t)

\* CoreBPE.decode_bytes(tokens)
CoreBPE_decode_bytes(tokens) ==
    IF \E i \in 1..Len(tokens) : ~IsKnownToken(tokens[i])
    THEN [status |-> "raise", error |-> <<"KeyError">>]
    ELSE [status |-> "ok", value |-> Flatten([i \in 1..Len(tokens) |-> TokenBytes(tokens[i])])]

(***************************************************************************)
(* class Encoding.  An operation's outcome is [status |-> "ok", value],    *)
(* or [status |-> "raise", error]; calls lists the arguments of the merge  *)
(* engine invocations the operation made, in order.                        *)
(***************************************************************************)
All == [kind |-> "all"]
Explicit(S) == [kind |-> "set", set |-> S]

encode_ordinary(text) ==
    LET r1 == CoreBPE_encode_ordinary(text)
        c1 == [text |-> text, allowed |-> {}]
    IN  IF r1.status = "ok" THEN [status |-> "ok", value |-> r1.value, calls |-> <<c1>>]
        ELSE LET t2 == SurrogateFallback(text)
                 r2 == CoreBPE_encode_ordinary(t2)
                 c2 == [text |-> t2, allowed |-> {}]
             IN  IF r2.status = "ok"
                 THEN [status |-> "ok", value |-> r2.value, calls |-> <<c1, c2>>]
                 ELSE [status |-> "raise", error |-> r2.error, calls |-> <<c1, c2>>]

ResolveAllowed(allowed_special) ==
    IF allowed_special.kind = "all" THEN special_tokens_set ELSE allowed_special.set

ResolveDisallowedNone(disallowed_special, allowed) ==
    IF disallowed_special.kind = "all" THEN {} ELSE disallowed_special.set

ResolveDisallowedFull(disallowed_special, allowed) ==
    IF disallowed_special.kind = "all" THEN special_tokens_set ELSE disallowed_special.set

ResolveDisallowed(disallowed_special, allowed) ==
    IF disallowed_special.kind = "all" THEN special_tokens_set \ allowed
    ELSE disallowed_special.set

\* _special_token_regex(tokens).search(text): the matches the search can return
\* (the literals occurring at the leftmost position where any of them occurs)
special_token_regex_search(tokens, text) ==
    LET at == {p \in 1..Len(text) : \E l \in tokens : OccursAt(l, text, p)}
    IN  IF at = {} THEN {}
        ELSE LET p == CHOOSE q \in at : \A r \in at : q <= r
             IN  {l \in tokens : OccursAt(l, text, p)}

raise_disallowed_special_token(token) ==
    [status |-> "raise", error |-> <<"ValueError", token>>, calls |-> <<>>]

\* encode, given the match m the regex search returns (None when it finds nothing)
encode_from(text, allowed, m) ==
    IF m.status = "match" THEN raise_disallowed_special_token(m.group)
    ELSE LET r1 == CoreBPE_encode(text, allowed)
             c1 == [text |-> text, allowed |-> allowed]
         IN  IF r1.status = "ok" THEN [status |-> "ok", value |-> r1.value, calls |-> <<c1>>]
             ELSE LET t2 == SurrogateFallback(text)
                      r2 == CoreBPE_encode(t2, allowed)
                      c2 == [text |-> t2, allowed |-> allowed]
                  IN  IF r2.status = "ok"
                      THEN [status |-> "ok", value |-> r2.value, calls |-> <<c1, c2>>]
                      ELSE [status |-> "raise", error |-> r2.error, calls |-> <<c1, c2>>]

\* the outcomes encode(text, allowed_special, disallowed_special) can have
encode(text, allowed_special, disallowed_special) ==
    LET allowed == ResolveAllowed(allowed_special)
        disallowed == ResolveDisallowed(disallowed_special, allowed)
        found == IF disallowed = {} THEN {}
                 ELSE special_token_regex_search(disallowed, text)
    IN  IF found = {} THEN {encode_from(text, allowed, None)}
        ELSE {encode_from(text, allowed, [status |-> "match", group |-> g]) : g \in found}

decode_bytes(tokens) == CoreBPE_decode_bytes(tokens)

DecodeStrLatin1(bs, errors) == [status |-> "ok", value |-> bs]
DecodeStr(bs, errors) == Utf8Decode(bs, errors)

decode(tokens, errors) ==
    LET b == decode_bytes(tokens)
    IN  IF b.status = "ok" THEN DecodeStr(b.value, errors) ELSE b

decode_single_token_bytes(token) == TokenBytes(token)

\* sum(1 for c in token if not 0x80 <= c < 0xC0)
CharCountAllBytes(token) == Len(token)
CharCount(token) == Cardinality({i \in 1..Len(token) : ~IsContinuation(token[i])})

\* the loop of decode_with_offsets over token_bytes, from running length text_len
RECURSIVE OffsetsLoop(_, _)
OffsetsLoop(token_bytes, text_len) ==
    IF token_bytes = <<>> THEN <<>>
    ELSE LET token == Head(token_bytes)
         IN  <<Max0(0, text_len - (IF IsContinuation(token[1]) THEN 1 ELSE 0))>>
             \o OffsetsLoop(Tail(token_bytes), text_len + CharCount(token))

decode_with_offsets(tokens) ==
    IF \E i \in 1..Len(tokens) : ~IsKnownToken(tokens[i])
    THEN [status |-> "raise", error |-> <<"KeyError">>]
    ELSE LET token_bytes == [i \in 1..Len(tokens) |-> decode_single_token_bytes(tokens[i])]
             offsets == OffsetsLoop(token_bytes, 0)
             text == Utf8Decode(Flatten(token_bytes), "strict")
         IN  IF text.status = "ok"
             THEN [status |-> "ok", value |-> [text |-> text.value, offsets |-> offsets]]
             ELSE text

\* tokens[i:i + max_tokens], i counted from 0
WindowOffByOne(tokens, i, max_tokens) ==
    SubSeq(tokens, i + 1, IF i + max_tokens - 1 <= Len(tokens)
                          THEN i + max_tokens - 1 ELSE Len(tokens))
Window(tokens, i, max_tokens) ==
    SubSeq(tokens, i + 1, IF i + max_tokens <= Len(tokens) THEN i + max_tokens ELSE Len(tokens))

\* range(0, n, max_tokens) as a sequence
RangeStarts(n, max_tokens) ==
    LET count == Cardinality({i \in 0..(n - 1) : i % max_tokens = 0})
    IN  [j \in 1..count |-> (j - 1) * max_tokens]

\* split_text_into_chunks(text, max_tokens); windows are the token slices decoded
split_text_into_chunks(text, max_tokens) ==
    LET enc == encode(text, Explicit({}), All)
    IN  {IF e.status # "ok" THEN e
         ELSE LET starts == RangeStarts(Len(e.value), max_tokens)
                  windows == [j \in 1..Len(starts) |-> Window(e.value, starts[j], max_tokens)]
              IN  [status |-> "ok",
                   value |-> [j \in 1..Len(windows) |-> decode(windows[j], "replace").value],
                   windows |-> windows, calls |-> e.calls]
         : e \in enc}

(***************************************************************************)
(* The codec session: one call of an operation of Encoding, or of          *)
(* split_text_into_chunks, and then possibly a decode of the tokens an     *)
(* encode_ordinary returned.                                               *)
(***************************************************************************)
Alphabet == {60, 97, 98, 233, 55357, 56832}
Texts == SeqsUpTo(Alphabet, MaxTextLen)
TokenIds == {1, 6, 9, 12, 13, 15, 17}
TokenSeqs == SeqsUpTo(TokenIds, MaxTokLen)
SpecialArgs == {All} \cup {Explicit(S) : S \in SUBSET SpecialLiterals}
DisallowedArgs == {All, Explicit({}), Explicit({<<60, 98>>})}
ErrorsArgs == {"replace", "strict"}

Call(op, inp, ret) == [op |-> op, inp |-> inp, ret |-> ret]

CallEncodeOrdinary ==
    /\ hist = <<>>
    /\ \E text \in Texts :
         hist' = <<Call("encode_ordinary", [text |-> text], encode_ordinary(text))>>
    /\ UNCHANGED <<batchVars, saveVars>>

CallEncode ==
    /\ hist = <<>>
    /\ \E text \in Texts, a \in SpecialArgs, d \in DisallowedArgs :
         \E ret \in encode(text, a, d) :
           hist' = <<Call("encode", [text |-> text, allowed_special |-> a,
                                     disallowed_special |-> d], ret)>>
    /\ UNCHANGED <<batchVars, saveVars>>

\* the tokens a decode is called on: any list, or the list encode_ordinary returned
DecodeInputs ==
    IF hist = <<>> THEN TokenSeqs
    ELSE IF Len(hist) = 1 /\ hist[1].op = "encode_ordinary" /\ hist[1].ret.status = "ok"
    THEN {hist[1].ret.value}
    ELSE {}

CallDecode ==
    /\ \E tokens \in DecodeInputs, errors \in ErrorsArgs :
         hist' = Append(hist, Call("decode", [tokens |-> tokens, errors |-> errors],
                                   decode(tokens, errors)))
    /\ UNCHANGED <<batchVars, saveVars>>

CallDecodeWithOffsets ==
    /\ \E tokens \in DecodeInputs :
         hist' = Append(hist, Call("decode_with_offsets", [tokens |-> tokens],
                                   decode_with_offsets(tokens)))
    /\ UNCHANGED <<batchVars, saveVars>>

CallSplit ==
    /\ hist = <<>>
    /\ \E text \in Texts, k \in 1..MaxK :
         \E ret \in split_text_into_chunks(text, k) :
           hist' = <<Call("split_text_into_chunks", [text |-> text, max_tokens |-> k], ret)>>
    /\ UNCHANGED <<batchVars, saveVars>>

IdleBatch ==
    /\ bpc = "idle" /\ bop = None /\ batch = <<>> /\ status = <<>> /\ outcome = <<>>
    /\ completed = <<>> /\ nxt = 1 /\ results = <<>> /\ err = None /\ bret = None
    /\ wasrunning = {}

IdleSave ==
    /\ chunks = <<>> /\ idx = 0 /\ files = <<>> /\ log = <<>> /\ attempts = <<>>
    /\ spc = "idle"

CodecInit == hist = <<>> /\ IdleBatch /\ IdleSave

CodecNext ==
    \/ CallEncodeOrdinary
    \/ CallEncode
    \/ CallDecode
    \/ CallDecodeWithOffsets
    \/ CallSplit

CodecSpec == CodecInit /\ [][CodecNext]_vars

(***************************************************************************)
(* Properties of the codec session (checked under CodecSpec).              *)
(***************************************************************************)
Contains(text, lit) == \E p \in 1..Len(text) : OccursAt(lit, text, p)
Occurrences(text, lit) == Cardinality({p \in 1..Len(text) : OccursAt(lit, text, p)})
CountOf(seq, x) == Cardinality({i \in 1..Len(seq) : seq[i] = x})
DefaultEncodeCalls ==
    {c \in {hist[i] : i \in 1..Len(hist)} :
        c.op = "encode" /\ c.inp.disallowed_special = All}

\* C1: split_text_into_chunks cuts encode(text) into the consecutive windows
\* tokens[i:i+k], i = 0, k, 2k, ...: their concatenation is encode(text), every
\* window but the last has exactly k tokens, the last has 1..k, and there are
\* ceil(len(tokens) / k) of them (none for an empty token sequence).
C1_ChunkCoverage ==
    \A c \in {hist[i] : i \in 1..Len(hist)} :
        (c.op = "split_text_into_chunks" /\ c.ret.status = "ok") =>
            LET k == c.inp.max_tokens
                tokens == (CHOOSE e \in encode(c.inp.text, Explicit({}), All) : TRUE).value
                n == Len(tokens)
                w == c.ret.windows
            IN  /\ Flatten(w) = tokens
                /\ Len(w) = (n + k - 1) \div k
                /\ Len(c.ret.value) = Len(w)
                /\ \A j \in 1..Len(w) :
                     /\ 1 <= Len(w[j]) /\ Len(w[j]) <= k
                     /\ j < Len(w) => Len(w[j]) = k
                     /\ w[j] = SubSeq(tokens, (j - 1) * k + 1,
                                      IF j * k <= n THEN j * k ELSE n)

\* a 5-token sequence cut with max_tokens = 2 into windows of 2, 2 and 1 tokens
C1_Witness ==
    /\ Len(hist) = 1 /\ hist[1].op = "split_text_into_chunks"
    /\ hist[1].ret.status = "ok" /\ hist[1].inp.max_tokens = 2
    /\ Len(hist[1].ret.windows) = 3
    /\ Len(hist[1].ret.windows[3]) = 1

\* C3 as stated: under the default policy, for every special literal s the text
\* contains, encode fails with the error naming s, before any engine call.
C3_NamesEveryLiteral ==
    \A c \in DefaultEncodeCalls : \A s \in SpecialLiterals :
        (c.inp.allowed_special = Explicit({}) /\ Contains(c.inp.text, s)) =>
            /\ c.ret.status = "raise"
            /\ c.ret.error = <<"ValueError", s>>
            /\ c.ret.calls = <<>>

\* C3 (amended): under the default policy, a text that contains a special literal
\* makes encode fail with the error naming a special literal that occurs at the
\* leftmost position where any special literal occurs, and the merge engine is
\* not invoked at all.
C3_NamesLeftmostLiteral ==
    \A c \in DefaultEncodeCalls :
        (c.inp.allowed_special = Explicit({})
         /\ \E s \in SpecialLiterals : Contains(c.inp.text, s)) =>
            /\ c.ret.status = "raise"
            /\ c.ret.calls = <<>>
            /\ \E s \in SpecialLiterals, p \in 1..Len(c.inp.text) :
                 /\ c.ret.error = <<"ValueError", s>>
                 /\ OccursAt(s, c.inp.text, p)
                 /\ \A q \in 1..(p - 1), l \in SpecialLiterals : ~OccursAt(l, c.inp.text, q)

\* a default encode of a text holding two different special literals has failed
C3_Witness ==
    \E c \in DefaultEncodeCalls :
        /\ c.inp.allowed_special = Explicit({})
        /\ \A s \in SpecialLiterals : Contains(c.inp.text, s)
        /\ c.ret.status = "raise"

\* C4 as stated: with allowed_special = {s}, every text containing s encodes
\* successfully to an output with exactly one token equal to s's id.
C4_ExactlyOneSpecial ==
    \A c \in DefaultEncodeCalls : \A s \in SpecialLiterals :
        (c.inp.allowed_special = Explicit({s}) /\ Contains(c.inp.text, s)) =>
            /\ c.ret.status = "ok"
            /\ CountOf(c.ret.value, SpecialId(s)) = 1

\* C4 (amended): with allowed_special = {s}, a text that contains s and no literal
\* of another special token encodes successfully; the output holds one token
\* equal to s's id per occurrence of the literal, and when s occurs once it is
\* the ordinary tokens of the text before the literal, s's id, and the ordinary
\* tokens of the text after it.
C4_OnePerOccurrence ==
    \A c \in DefaultEncodeCalls : \A s \in SpecialLiterals :
        (/\ c.inp.allowed_special = Explicit({s})
         /\ Contains(c.inp.text, s)
         /\ \A l \in SpecialLiterals \ {s} : ~Contains(c.inp.text, l)) =>
            LET text == c.inp.text
            IN  /\ c.ret.status = "ok"
                /\ CountOf(c.ret.value, SpecialId(s)) = Occurrences(text, s)
                /\ Occurrences(text, s) = 1 =>
                     LET p == CHOOSE q \in 1..Len(text) : OccursAt(s, text, q)
                     IN  c.ret.value =
                            encode_ordinary(SubSeq(text, 1, p - 1)).value
                            \o <<SpecialId(s)>>
                            \o encode_ordinary(SubSeq(text, p + Len(s), Len(text))).value

\* an allowed special literal between two ordinary code points was encoded
C4_Witness ==
    \E c \in DefaultEncodeCalls : \E s \in SpecialLiterals :
        /\ c.inp.allowed_special = Explicit({s})
        /\ Len(c.inp.text) = Len(s) + 2
        /\ OccursAt(s, c.inp.text, 2)
        /\ c.ret.status = "ok"
        /\ CountOf(c.ret.value, SpecialId(s)) = 1

RoundTrips ==
    {i \in 2..Len(hist) :
        /\ hist[i - 1].op = "encode_ordinary" /\ hist[i].op = "decode"
        /\ hist[i].inp.tokens = hist[i - 1].ret.value
        /\ hist[i].inp.errors = "replace"
        /\ \A s \in SpecialLiterals : ~Contains(hist[i - 1].inp.text, s)}

\* C5 as stated: decode(encode_ordinary(text)) = text for every text without
\* special literals.
C5_RoundTripAnyText ==
    \A i \in RoundTrips :
        hist[i].ret.status = "ok" /\ hist[i].ret.value = hist[i - 1].inp.text

\* C5 (amended): decode(encode_ordinary(text)) = text for every text that holds
\* no special literal and no surrogate code point.
C5_RoundTripNoSurrogate ==
    \A i \in RoundTrips :
        ~HasSurrogate(hist[i - 1].inp.text) =>
            hist[i].ret.status = "ok" /\ hist[i].ret.value = hist[i - 1].inp.text

\* a text with a two-byte character and a merged pair went through the round trip
C5_Witness ==
    \E i \in RoundTrips :
        /\ hist[i - 1].inp.text = <<97, 98, 233>>
        /\ hist[i - 1].ret.value = <<12, 13>>
        /\ hist[i].ret.status = "ok"

\* C7: when decode_with_offsets returns (text, offsets): one offset per token,
\* offsets non-decreasing, each at most len(text), and offsets[i] is
\* max(0, running_length - 1) for a token starting with a continuation byte and
\* running_length otherwise, running_length counting the non-continuation bytes
\* of the tokens before i.
C7_Offsets ==
    \A c \in {hist[i] : i \in 1..Len(hist)} :
        (c.op = "decode_with_offsets" /\ c.ret.status = "ok") =>
            LET tokens == c.inp.tokens
                text == c.ret.value.text
                offsets == c.ret.value.offsets
                before(i) == Flatten([j \in 1..(i - 1) |-> TokenBytes(tokens[j])])
                running(i) ==
                    Cardinality({p \in 1..Len(before(i)) : ~IsContinuation(before(i)[p])})
            IN  /\ Len(offsets) = Len(tokens)
                /\ \A i \in 1..(Len(offsets) - 1) : offsets[i] <= offsets[i + 1]
                /\ \A i \in 1..Len(offsets) :
                     /\ offsets[i] <= Len(text)
                     /\ offsets[i] =
                            IF IsContinuation(TokenBytes(tokens[i])[1])
                            THEN Max0(0, running(i) - 1) ELSE running(i)

\* offsets were returned for a character split over two tokens, followed by more
C7_Witness ==
    \E c \in {hist[i] : i \in 1..Len(hist)} :
        /\ c.op = "decode_with_offsets" /\ c.ret.status = "ok"
        /\ Len(c.inp.tokens) >= 3
        /\ \E i \in 2..Len(c.inp.tokens) : IsContinuation(TokenBytes(c.inp.tokens[i])[1])
        /\ c.ret.value.offsets[Len(c.inp.tokens)] >= 1

SurrogateCalls ==
    {c \in {hist[i] : i \in 1..Len(hist)} :
        /\ c.op \in {"encode_ordinary", "encode"}
        /\ HasSurrogate(c.inp.text)
        /\ ~(c.ret.status = "raise" /\ c.ret.error[1] = "ValueError")}

\* C9: when the text holds surrogates and the merge engine rejects it,
\* encode_ordinary and encode succeed: the engine is called exactly once more,
\* on a re-encoded text without surrogates and with the same allowed set, and
\* that second call's tokens are returned.
C9_SurrogateFallback ==
    \A c \in SurrogateCalls :
        /\ c.ret.status = "ok"
        /\ Len(c.ret.calls) = 2
        /\ c.ret.calls[1].text = c.inp.text
        /\ CoreBPE_encode(c.ret.calls[1].text, c.ret.calls[1].allowed).status = "raise"
        /\ ~HasSurrogate(c.ret.calls[2].text)
        /\ c.ret.calls[2].allowed = c.ret.calls[1].allowed
        /\ c.ret.value = CoreBPE_encode(c.ret.calls[2].text, c.ret.calls[2].allowed).value

\* an encode with an allowed special literal and a lone surrogate has returned
C9_Witness ==
    \E c \in SurrogateCalls :
        /\ c.op = "encode"
        /\ c.ret.status = "ok"
        /\ \E s \in SpecialLiterals :
             c.ret.calls[2].allowed = {s} /\ Contains(c.inp.text, s)
        /\ 65533 \in {c.ret.calls[2].text[i] : i \in 1..Len(c.ret.calls[2].text)}

(***************************************************************************)
(* The batch operations: with ThreadPoolExecutor(num_threads) as executor: *)
(*     return list(executor.map(fn, inputs))                               *)
(* map submits one future per input, in order; the pool's workers take     *)
(* the queued items first-in first-out, at most num_threads at a time;     *)
(* list() waits on the futures in submission order; an item's exception is *)
(* re-raised when list() reaches it, the futures still pending are         *)
(* cancelled, and the with block's exit is shutdown(wait=True).            *)
(***************************************************************************)
BatchTexts == {<<97, 98>>, <<60, 97>>}
BatchTokens == {<<9>>, <<17>>}
BatchSpecialArgs == {All, Explicit({}), Explicit({<<60, 97>>})}
Items == 1..Len(batch)
Running == {i \in Items : status[i] = "running"}
Terminal == {"returned", "raised"}
Value(o) == [status |-> o.status, value |-> o.value]
Raise(o) == [status |-> o.status, error |-> o.error]
Strip(o) == IF o.status = "ok" THEN Value(o) ELSE Raise(o)

\* the function a batch operation maps over its inputs (fn), applied to x
ItemOp(fn, x) ==
    IF fn.name = "encode_ordinary_batch" THEN {Strip(encode_ordinary(x))}
    ELSE IF fn.name = "encode_batch"
    THEN LET allowed == ResolveAllowed(fn.allowed_special)
             disallowed == ResolveDisallowed(fn.disallowed_special, allowed)
         IN  {Strip(o) : o \in encode(x, Explicit(allowed), Explicit(disallowed))}
    ELSE IF fn.name = "decode_batch" THEN {decode(x, fn.errors)}
    ELSE {decode_bytes(x)}

\* the batch calls of the model: which operation with which arguments
BatchFns ==
    {[name |-> "encode_ordinary_batch"], [name |-> "decode_bytes_batch"]}
    \cup {[name |-> "encode_batch", allowed_special |-> a, disallowed_special |-> d] :
            a \in BatchSpecialArgs, d \in {All, Explicit({})}}
    \cup {[name |-> "decode_batch", errors |-> e] : e \in ErrorsArgs}

InputsOf(fn) ==
    IF fn.name \in {"encode_ordinary_batch", "encode_batch"} THEN BatchTexts ELSE BatchTokens

\* fn is a function of its input alone (the vocabulary is immutable): its
\* outcomes on each input
ItemOutcomes == [fn \in BatchFns |-> [x \in InputsOf(fn) |-> ItemOp(fn, x)]]

StartBatch(fn, inputs, num_threads) ==
    /\ bpc = "idle"
    /\ bop' = [fn |-> fn, num_threads |-> num_threads]
    /\ batch' = inputs
    /\ status' = [i \in 1..Len(inputs) |-> "pending"]
    /\ outcome' = [i \in 1..Len(inputs) |-> None]
    /\ bpc' = "collecting"
    /\ UNCHANGED <<completed, nxt, results, err, bret, wasrunning, codecVars, saveVars>>

encode_ordinary_batch ==
    \E texts \in SeqsUpTo(BatchTexts, MaxBatch), n \in 1..MaxThreads :
        StartBatch([name |-> "encode_ordinary_batch"], texts, n)

encode_batch ==
    \E texts \in SeqsUpTo(BatchTexts, MaxBatch), n \in 1..MaxThreads,
       a \in BatchSpecialArgs, d \in {All, Explicit({})} :
        StartBatch([name |-> "encode_batch", allowed_special |-> a,
                    disallowed_special |-> d], texts, n)

decode_batch ==
    \E b \in SeqsUpTo(BatchTokens, MaxBatch), n \in 1..MaxThreads, e \in ErrorsArgs :
        StartBatch([name |-> "decode_batch", errors |-> e], b, n)

decode_bytes_batch ==
    \E b \in SeqsUpTo(BatchTokens, MaxBatch), n \in 1..MaxThreads :
        StartBatch([name |-> "decode_bytes_batch"], b, n)

\* a worker takes the oldest queued item
WorkerStart ==
    /\ bpc \in {"collecting", "exiting"}
    /\ Cardinality(Running) < bop.num_threads
    /\ \E i \in Items :
         /\ status[i] = "pending"
         /\ \A j \in 1..(i - 1) : status[j] # "pending"
         /\ status' = [status EXCEPT ![i] = "running"]
    /\ UNCHANGED <<bpc, bop, batch, outcome, completed, nxt, results, err, bret,
                   wasrunning, codecVars, saveVars>>

\* a worker completes the item it runs and sets its future
WorkerFinish ==
    /\ \E i \in Running : \E o \in ItemOutcomes[bop.fn][batch[i]] :
         /\ status' = [status EXCEPT ![i] = "done"]
         /\ outcome' = [outcome EXCEPT ![i] = o]
         /\ completed' = Append(completed, i)
    /\ UNCHANGED <<bpc, bop, batch, nxt, results, err, bret, wasrunning, codecVars,
                   saveVars>>

\* the item whose result executor.map yields k-th
MapResultSourceByCompletion(k) == IF k <= Len(completed) THEN completed[k] ELSE k
MapResultSource(k) == k

\* list() receives the next result
CollectResult ==
    /\ bpc = "collecting" /\ nxt <= Len(batch)
    /\ LET i == MapResultSource(nxt)
       IN  /\ status[i] = "done" /\ outcome[i].status = "ok"
           /\ results' = Append(results, outcome[i].value)
    /\ nxt' = nxt + 1
    /\ UNCHANGED <<bpc, bop, batch, status, outcome, completed, err, bret, wasrunning,
                   codecVars, saveVars>>

\* list() reaches an item that raised: the pending futures are cancelled and the
\* exception leaves the with block
CollectError ==
    /\ bpc = "collecting" /\ nxt <= Len(batch)
    /\ LET i == MapResultSource(nxt)
       IN  /\ status[i] = "done" /\ outcome[i].status = "raise"
           /\ err' = outcome[i]
    /\ status' = [i \in Items |-> IF status[i] = "pending" THEN "cancelled" ELSE status[i]]
    /\ wasrunning' = Running
    /\ bpc' = "exiting"
    /\ UNCHANGED <<bop, batch, outcome, completed, nxt, results, bret, codecVars, saveVars>>

\* list() has received every result
CollectDone ==
    /\ bpc = "collecting" /\ nxt > Len(batch)
    /\ bpc' = "exiting"
    /\ UNCHANGED <<bop, batch, status, outcome, completed, nxt, results, err, bret,
                   wasrunning, codecVars, saveVars>>

\* shutdown(wait=True) joins the workers, which first drain the queue
ShutdownNoWait == TRUE
ShutdownWaits == \A i \in Items : status[i] \notin {"pending", "running"}

\* what the batch call hands to its caller
ExitValuePartial(e, res) == [status |-> "ok", value |-> res]
ExitValue(e, res) ==
    IF e.status = "raise" THEN [status |-> "raise", error |-> e.error]
    ELSE [status |-> "ok", value |-> res]

\* the with block's exit, then the return or the propagating exception
ExecutorExit ==
    /\ bpc = "exiting"
    /\ ShutdownWaits
    /\ bret' = ExitValue(err, results)
    /\ bpc' = IF bret'.status = "ok" THEN "returned" ELSE "raised"
    /\ UNCHANGED <<bop, batch, status, outcome, completed, nxt, results, err, wasrunning,
                   codecVars, saveVars>>

BatchInit == hist = <<>> /\ IdleBatch /\ IdleSave

WorkerStep == WorkerStart \/ WorkerFinish
CallerStep == CollectResult \/ CollectError \/ CollectDone \/ ExecutorExit

BatchNext ==
    \/ encode_ordinary_batch
    \/ encode_batch
    \/ decode_batch
    \/ decode_bytes_batch
    \/ WorkerStart
    \/ WorkerFinish
    \/ CollectResult
    \/ CollectError
    \/ CollectDone
    \/ ExecutorExit

BatchSpec == BatchInit /\ [][BatchNext]_vars

\* every thread that can take a step eventually takes one
FairBatchSpec == BatchSpec /\ WF_vars(WorkerStep) /\ WF_vars(CallerStep)

(***************************************************************************)
(* Properties of the batch operations.                                     *)
(***************************************************************************)
\* the outcomes of the single-item operation called directly on x with the
\* arguments the batch call was given
SingleOp(fn, x) ==
    IF fn.name = "encode_ordinary_batch" THEN {Strip(encode_ordinary(x))}
    ELSE IF fn.name = "encode_batch"
    THEN {Strip(o) : o \in encode(x, fn.allowed_special, fn.disallowed_special)}
    ELSE IF fn.name = "decode_batch" THEN {decode(x, fn.errors)}
    ELSE {decode_bytes(x)}

SingleFails(i) == \A o \in SingleOp(bop.fn, batch[i]) : o.status = "raise"

\* C2: when encode_batch returns, its list is as long as texts and element i is
\* encode(texts[i]) with the same allowed_special / disallowed_special, for
\* every pool size and every order in which the workers complete the items.
C2_BatchOrder ==
    (bpc = "returned" /\ bop.fn.name = "encode_batch") =>
        /\ bret.status = "ok"
        /\ Len(bret.value) = Len(batch)
        /\ \A i \in Items :
             \E o \in SingleOp(bop.fn, batch[i]) : o.status = "ok" /\ bret.value[i] = o.value

\* an encode_batch returned whose items completed out of submission order
C2_Witness ==
    /\ bpc = "returned" /\ bop.fn.name = "encode_batch"
    /\ Len(batch) >= 2 /\ completed[1] # 1
    /\ batch[1] # batch[2]

\* C6: once a batch call is over, if the single-item operation fails on some
\* element, the call has raised and handed no result list to the caller.
C6_BatchFailsWhole ==
    (bpc \in Terminal /\ \E i \in Items : SingleFails(i)) =>
        /\ bpc = "raised"
        /\ bret.status = "raise"
        /\ "value" \notin DOMAIN bret

\* a batch raised after an earlier element's result was collected and while a
\* later element succeeded
C6_Witness ==
    /\ bpc = "raised"
    /\ Len(results) >= 1
    /\ \E i \in Items : i > nxt /\ status[i] = "done" /\ outcome[i].status = "ok"

\* C10: a batch call is over only when no worker is running or still has to run
\* one of its items (every item has completed or was cancelled, and all have
\* completed when the call returns a list); and a call that was started is
\* eventually over.
C10_JoinStyle ==
    /\ [](bpc \in Terminal =>
            /\ \A i \in Items : status[i] \in {"done", "cancelled"}
            /\ bpc = "returned" => \A i \in Items : status[i] = "done")
    /\ (bpc = "collecting") ~> (bpc \in Terminal)

\* a batch call raised, and a worker that was running an item when the error
\* surfaced has completed it
C10_Witness ==
    /\ bpc = "raised"
    /\ wasrunning # {}
    /\ \A i \in wasrunning : status[i] = "done"

(***************************************************************************)
(* save_chunks_to_files(chunks, prefix): one loop iteration per step.      *)
(* A write ends in one of three ways: it succeeds; open or write raises an *)
(* IOError, which the loop's handler logs; or the chunk holds a surrogate  *)
(* code point, so that file.write raises UnicodeEncodeError (a ValueError, *)
(* not an IOError) after open has created the file.                        *)
(***************************************************************************)
ChunkTexts == {<<97>>, <<98, 233>>, <<55357>>}

\* f"{prefix}{idx}.txt" for the default prefix
FileName(i) == <<"chunk_", i, ".txt">>

WriteFile(name, content) ==
    [n \in DOMAIN files \cup {name} |-> IF n = name THEN content ELSE files[n]]

save_chunks_to_files ==
    /\ spc = "idle"
    /\ \E cs \in SeqsUpTo(ChunkTexts, MaxChunks) : chunks' = cs
    /\ spc' = "loop"
    /\ UNCHANGED <<idx, files, log, attempts, codecVars, batchVars>>

\* open and file.write succeed, logger.info
WriteChunk ==
    /\ spc = "loop" /\ idx < Len(chunks)
    /\ ~HasSurrogate(chunks[idx + 1])
    /\ files' = WriteFile(FileName(idx), chunks[idx + 1])
    /\ log' = Append(log, <<"info", idx>>)
    /\ attempts' = Append(attempts, idx)
    /\ idx' = idx + 1
    /\ UNCHANGED <<chunks, spc, codecVars, batchVars>>

\* where the loop goes after its except IOError handler
AfterIOErrorAbort == "raised"
AfterIOError == "loop"

\* open or file.write raises IOError (the file is untouched, or left truncated),
\* logger.error
WriteIOError ==
    /\ spc = "loop" /\ idx < Len(chunks)
    /\ \E opened \in BOOLEAN :
         files' = IF opened THEN WriteFile(FileName(idx), <<>>) ELSE files
    /\ log' = Append(log, <<"error", idx>>)
    /\ attempts' = Append(attempts, idx)
    /\ idx' = idx + 1
    /\ spc' = AfterIOError
    /\ UNCHANGED <<chunks, codecVars, batchVars>>

\* file.write raises UnicodeEncodeError, which no handler of the loop catches
WriteUnicodeError ==
    /\ spc = "loop" /\ idx < Len(chunks)
    /\ HasSurrogate(chunks[idx + 1])
    /\ files' = WriteFile(FileName(idx), <<>>)
    /\ attempts' = Append(attempts, idx)
    /\ spc' = "raised"
    /\ UNCHANGED <<chunks, idx, log, codecVars, batchVars>>

\* the loop is over
SaveReturn ==
    /\ spc = "loop" /\ idx = Len(chunks)
    /\ spc' = "returned"
    /\ UNCHANGED <<chunks, idx, files, log, attempts, codecVars, batchVars>>

SaveInit == hist = <<>> /\ IdleBatch /\ IdleSave

SaveNext ==
    \/ save_chunks_to_files
    \/ WriteChunk
    \/ WriteIOError
    \/ WriteUnicodeError
    \/ SaveReturn

SaveSpec == SaveInit /\ [][SaveNext]_vars

(***************************************************************************)
(* Properties of save_chunks_to_files (checked under SaveSpec).            *)
(***************************************************************************)
Logged(kind, i) == \E r \in 1..Len(log) : log[r] = <<kind, i>>

\* C8 as stated: whatever fails while a chunk is written, the call returns
\* normally after attempting every chunk.
C8_AnyFailureSkipped ==
    spc \in {"returned", "raised"} =>
        /\ spc = "returned"
        /\ Len(attempts) = Len(chunks)

\* C8 (amended): chunks are attempted in index order 0, 1, ...; every chunk whose
\* write succeeded is in the file prefix + i + ".txt"; a write that fails with
\* an IOError is logged and the loop goes on, so that a call that returns has
\* attempted every chunk; and the call ends early, with an exception, only when
\* the write of a chunk holding a surrogate code point raises
\* UnicodeEncodeError, which is not logged.
C8_IOErrorSkipped ==
    /\ attempts = [j \in 1..Len(attempts) |-> j - 1]
    /\ \A i \in 0..(Len(chunks) - 1) :
         Logged("info", i) =>
            FileName(i) \in DOMAIN files /\ files[FileName(i)] = chunks[i + 1]
    /\ \A j \in 1..Len(attempts) :
         (spc # "raised" \/ j < Len(attempts))
            => (Logged("info", attempts[j]) \/ Logged("error", attempts[j]))
    /\ spc = "returned" => Len(attempts) = Len(chunks)
    /\ spc = "raised" =>
         /\ attempts # <<>>
         /\ HasSurrogate(chunks[attempts[Len(attempts)] + 1])
         /\ ~Logged("error", attempts[Len(attempts)])

\* the call returned after the write of chunk 0 failed with an IOError and the
\* write of chunk 1 succeeded
C8_Witness ==
    /\ spc = "returned"
    /\ Len(chunks) >= 2
    /\ Logged("error", 0) /\ Logged("info", 1)
    /\ files[FileName(1)] = chunks[2]

====
